---- MODULE Spec2Model ----
(***************************************************************************)
(* storm-engine: the two single-producer/single-consumer channels of       *)
(* src/utility (consume_spsc.rs, the drain channel; replace_spsc.rs, the   *)
(* overwrite channel).                                                     *)
(*                                                                         *)
(* One behaviour follows one channel object: `chan` says which make() was  *)
(* called.  The producer thread and the consumer thread each execute one   *)
(* memory access per step and the steps interleave freely.  The atomic     *)
(* accesses are modelled sequentially consistent: the reordering of the    *)
(* Release store of is_empty after the Acquire load of read, which         *)
(* Buffer::read of consume_spsc permits, is not modelled.  The plain store *)
(* of Buffer::write takes two steps (it begins, it completes) so that a    *)
(* plain load racing with it is visible; the result of such a racing load, *)
(* of a load of never-written memory and of a null dereference is a        *)
(* nondeterministic choice.                                                *)
(*                                                                         *)
(* T is opaque to the channels, so the value passed by the k-th set call   *)
(* is k (and make(initial) of the overwrite channel passes 0): every call  *)
(* is then recognisable by the value it wrote.                             *)
(***************************************************************************)
EXTENDS Integers, Sequences, FiniteSets, TLC

\* const BUFFER_SIZE: usize = 16
BUFFER_SIZE == 16

\* number of Producer.set calls a behaviour may start
MaxWrites == 18

\* number of init() calls a behaviour may make on one lazy global
MaxInits == 3

\* 0 as *mut T, the null published reference
Null == -1
\* a slot of mem::uninitialized() no write has reached
Uninit == -1
\* what a load of uninitialised or concurrently stored memory may yield
Garbage == -2
\* Option::None
None == -3
\* the dereference of the null pointer traps
Fault == -4
\* no read call has returned yet
NoCall == -5

Slots == 0 .. (BUFFER_SIZE - 1)

\* bitwise and of two naturals, as the & of the cursor update
RECURSIVE BitAnd(_, _)
BitAnd(a, b) ==
    IF a = 0 \/ b = 0 THEN 0
    ELSE (a % 2) * (b % 2) + 2 * BitAnd(a \div 2, b \div 2)

\* mutant: the cursor is advanced without the mask
NextCursor_unmasked(x) == x + 1

\* mutant: the mask is one too small, which clears bit 0 of the cursor
NextCursor_mask_low(x) == BitAnd(x + 1, BUFFER_SIZE - 2)

\* mutant: the mask is that of a ring of half the size
NextCursor_mask_half(x) == BitAnd(x + 1, (BUFFER_SIZE \div 2) - 1)

\* (x + 1) & (BUFFER_SIZE - 1)
NextCursor(x) == BitAnd(x + 1, BUFFER_SIZE - 1)

VARIABLES
    chan,               \* "none" before make, then "consume" or "replace"
    c_is_empty,         \* consume_spsc Buffer.is_empty
    c_read,             \* consume_spsc Buffer.read
    c_current,          \* consume_spsc Buffer.current
    c_buffer,           \* consume_spsc Buffer.buffer
    r_read,             \* replace_spsc Buffer.read
    r_current,          \* replace_spsc Buffer.current
    r_write,            \* replace_spsc Buffer.write
    p_pc,               \* producer thread: position inside Buffer::write
    p_x,                \* producer thread: local x of Buffer::write
    p_value,            \* producer thread: parameter value of Buffer::write
    q_pc,               \* consumer thread: position inside Buffer::read
    q_ptr,              \* consumer thread: the reference it loaded
    q_ret,              \* consumer thread: what its last read call returned
    q_seen,             \* content of the referenced slot when it was loaded
    q_raced,            \* a store into the referenced slot began before the dereference
    sets_started,       \* history: number of set calls started
    sets_done,          \* history: number of set calls completed
    published,          \* history: ordinal of the write that published last
    p_undisturbed,      \* history: no consumer step since the current set call began
    writes_since_read,  \* history: set calls begun and completed since the last consumer step
    q_quiet,            \* history: producer idle since the current read call began
    q_batch,            \* history: writes_since_read when the current read call began
    q_after,            \* history: the previous read call was quiet with q_batch >= 1
    q_expect,           \* history: `published` at the reference load
    q_window,           \* history: set calls started since the reference load
    q_done_at_start,    \* history: sets_done when the current read call began
    delivered_last,     \* history: the last value consume returned as Some
    set_flagged_since_clear, \* history: a set stored is_empty := false since the
                        \*   is_empty := true of the consume call under way
    set_ended_since_clear,   \* history: a set call returned since that store
    q_max,              \* history: the newest value get has returned
    q_widest,           \* history: the most set calls begun during one get
    l_factory,          \* init/mod.rs: the fn() -> T given to new ("const" or "fresh")
    l_store,            \* StaticStack.store / StaticHeap.store, by flavor
    l_boxes,            \* the heap: what Box::new has allocated so far
    l_pc,               \* initialising thread: position inside init(), by flavor
    l_value,            \* initialising thread: local value of init(), by flavor
    l_calls,            \* history: invocations of the initializer, by flavor
    l_inits,            \* history: init() calls begun, by flavor
    l_inits_done,       \* history: init() calls returned, by flavor
    l_ret,              \* reading threads: what the last deref yielded, by flavor and thread
    l_ret_after,        \* history: the init() calls returned before that deref, 0 if it
                        \*   ran before the first init() returned or during an init()
    l_broken,           \* history: the usage contract has been broken, by flavor
    arc_strong,         \* Arc<Buffer<T>>: the strong count of the ring
    ring_alive,         \* Arc<Buffer<T>>: the ring is allocated (made and not yet freed)
    h_producer,         \* the Producer handle exists (returned by make, not yet dropped)
    h_consumer          \* the Consumer handle exists (returned by make, not yet dropped)

consumeBuf == <<c_is_empty, c_read, c_current, c_buffer>>
replaceBuf == <<r_read, r_current, r_write>>
prodLocal == <<p_pc, p_x, p_value>>
consLocal == <<q_pc, q_ptr, q_ret, q_seen>>
readHistory == <<q_batch, q_after, q_expect, q_done_at_start, delivered_last>>
orderHistory == <<set_flagged_since_clear, set_ended_since_clear>>
getHistory == <<q_max, q_widest>>

channelVars == <<chan, c_is_empty, c_read, c_current, c_buffer, r_read, r_current, r_write,
          p_pc, p_x, p_value, q_pc, q_ptr, q_ret, q_seen, q_raced,
          sets_started, sets_done, published, p_undisturbed, writes_since_read,
          q_quiet, q_batch, q_after, q_expect, q_window, q_done_at_start, delivered_last,
          set_flagged_since_clear, set_ended_since_clear, q_max, q_widest,
          arc_strong, ring_alive, h_producer, h_consumer>>
arcVars == <<arc_strong, ring_alive, h_producer, h_consumer>>
lazyVars == <<l_factory, l_store, l_boxes, l_pc, l_value, l_calls, l_inits, l_inits_done,
              l_ret, l_ret_after, l_broken>>
vars == <<channelVars, lazyVars>>

\* Arc::new, Arc::clone and the drop of an Arc, on the strong count
ArcNew == 1
ArcClone(n) == n + 1
ArcDrop(n) == n - 1

\* make, mutant: the local arc is forgotten instead of dropped
MakeStrong_leaked == ArcClone(ArcClone(ArcNew))

\* make: `let arc = Arc::new(..)`, two `arc.clone()` for the handles, and the
\* local arc goes out of scope on return
MakeStrong == ArcDrop(ArcClone(ArcClone(ArcNew)))

\* make returns (Producer { buffer }, Consumer { buffer })
MakeHandles ==
    /\ arc_strong' = MakeStrong
    /\ ring_alive' = TRUE
    /\ h_producer' = TRUE
    /\ h_consumer' = TRUE

\* the two flavors of lazy global and the threads that dereference them
Cells == {"stack", "heap"}
Readers == {1, 2}

\* what the k-th invocation of the initializer returns: a constant, or a value
\* that differs from invocation to invocation
Factory(f, k) == IF f = "const" THEN 7 ELSE 10 + k

\* StaticStack::new: StackStore { dummy: false }, no value
StaticStack_new == Uninit

\* StaticHeap::new: 0 as *const _
StaticHeap_new == Null

\* the lazy globals as new(initializer) leaves them
LazyNew(f) ==
    /\ l_factory = f
    /\ l_store = [c \in Cells |-> IF c = "stack" THEN StaticStack_new ELSE StaticHeap_new]
    /\ l_boxes = <<>>
    /\ l_pc = [c \in Cells |-> "idle"]
    /\ l_value = [c \in Cells |-> 0]
    /\ l_calls = [c \in Cells |-> 0]
    /\ l_inits = [c \in Cells |-> 0]
    /\ l_inits_done = [c \in Cells |-> 0]
    /\ l_ret = [c \in Cells |-> [t \in Readers |-> NoCall]]
    /\ l_ret_after = [c \in Cells |-> [t \in Readers |-> 0]]
    /\ l_broken = [c \in Cells |-> FALSE]

\* Before make(): no buffer exists; the fields hold what Buffer::new will give them.
InitChannels ==
    /\ chan = "none"
    /\ c_is_empty = TRUE
    /\ c_read = Null
    /\ c_current = 0
    /\ c_buffer = [i \in Slots |-> Uninit]
    /\ r_read = Null
    /\ r_current = 0
    /\ r_write = [i \in Slots |-> Uninit]
    /\ p_pc = "idle"
    /\ p_x = 0
    /\ p_value = 0
    /\ q_pc = "idle"
    /\ q_ptr = Null
    /\ q_ret = NoCall
    /\ q_seen = Uninit
    /\ q_raced = FALSE
    /\ sets_started = 0
    /\ sets_done = 0
    /\ published = 0
    /\ p_undisturbed = FALSE
    /\ writes_since_read = 0
    /\ q_quiet = FALSE
    /\ q_batch = 0
    /\ q_after = FALSE
    /\ q_expect = 0
    /\ q_window = 0
    /\ q_done_at_start = 0
    /\ delivered_last = 0
    /\ set_flagged_since_clear = FALSE
    /\ set_ended_since_clear = FALSE
    /\ q_max = 0
    /\ q_widest = 0
    /\ arc_strong = 0
    /\ ring_alive = FALSE
    /\ h_producer = FALSE
    /\ h_consumer = FALSE

\* the state after construction: no channel made yet, the lazy globals new
Init ==
    /\ InitChannels
    /\ LazyNew("const")

----------------------------------------------------------------------------
\* What a plain load `*pointer` may yield.

\* the bits of a slot: a never-written slot holds arbitrary bits
Resolve(content) == IF content = Uninit THEN Garbage ELSE content

\* is the producer's plain store into slot s in flight?
StoreInFlight(s) == p_pc = "store" /\ p_x = s

\* the outcomes of dereferencing ptr over the slot array buf
DerefOutcomes(buf, ptr) ==
    IF ptr = Null THEN {Fault}
    ELSE IF StoreInFlight(ptr) THEN {Resolve(buf[ptr]), Resolve(q_seen), p_value, Garbage}
    ELSE IF q_raced THEN {Resolve(buf[ptr]), Resolve(q_seen), Garbage}
    ELSE {Resolve(buf[ptr])}

----------------------------------------------------------------------------
\* History kept by every producer step / every consumer step.

\* a step of the producer thread inside a set call
ProducerStep ==
    /\ q_quiet' = FALSE
    /\ UNCHANGED <<consLocal, readHistory>>

\* the step of the producer thread that enters a set call
SetCallBegins(slot) ==
    /\ sets_started' = sets_started + 1
    /\ q_window' = IF q_pc = "deref" THEN q_window + 1 ELSE q_window
    /\ q_raced' = (q_raced \/ (q_pc = "deref" /\ q_ptr = slot))
    /\ p_undisturbed' = TRUE
    /\ UNCHANGED <<sets_done, published, writes_since_read>>

\* the step of the producer thread that leaves a set call
SetCallEnds ==
    /\ sets_done' = sets_done + 1
    /\ writes_since_read' = IF p_undisturbed THEN writes_since_read + 1 ELSE writes_since_read
    /\ UNCHANGED <<sets_started, published, p_undisturbed, q_window, q_raced>>

\* a step of the consumer thread
ConsumerStep ==
    /\ writes_since_read' = 0
    /\ p_undisturbed' = FALSE
    /\ UNCHANGED <<prodLocal, sets_started, sets_done, published>>

\* the step of the consumer thread that enters a read call
ReadCallBegins ==
    /\ q_quiet' = (p_pc = "idle")
    /\ q_batch' = writes_since_read
    /\ q_after' = (q_ret # NoCall /\ q_quiet /\ q_batch >= 1)
    /\ q_done_at_start' = sets_done

\* a later step of the consumer thread inside a read call
ReadCallGoesOn == UNCHANGED <<q_quiet, q_batch, q_after, q_done_at_start>>

----------------------------------------------------------------------------
\* consume_spsc.rs (the drain channel)

\* make(): Arc::new(Buffer::new()) and the two handles
consume_make ==
    /\ chan = "none"
    /\ UNCHANGED getHistory
    /\ UNCHANGED orderHistory
    /\ chan' = "consume"
    /\ c_is_empty' = TRUE
    /\ c_read' = Null
    /\ c_current' = 0
    /\ c_buffer' = [i \in Slots |-> Uninit]
    /\ UNCHANGED <<replaceBuf, prodLocal, consLocal, q_raced, sets_started, sets_done,
                   published, p_undisturbed, writes_since_read, q_quiet, readHistory, q_window>>
    /\ UNCHANGED lazyVars
    /\ MakeHandles

\* mutant: write marks the buffer empty while it stores
consume_write_begin_clearing ==
    /\ chan = "consume"
    /\ h_producer
    /\ UNCHANGED getHistory
    /\ UNCHANGED orderHistory
    /\ p_pc = "idle"
    /\ sets_started < MaxWrites
    /\ p_x' = c_current
    /\ p_value' = sets_started + 1
    /\ p_pc' = "store"
    /\ c_is_empty' = TRUE
    /\ SetCallBegins(c_current)
    /\ q_quiet' = FALSE
    /\ UNCHANGED <<chan, c_read, c_current, c_buffer, replaceBuf, consLocal, readHistory>>
    /\ UNCHANGED lazyVars
    /\ UNCHANGED arcVars

\* Producer::set -> Buffer::write: let x = self.current.get(); the pointer is
\* computed and pointer.write(value) begins
consume_write_begin ==
    /\ chan = "consume"
    /\ h_producer
    /\ UNCHANGED getHistory
    /\ UNCHANGED orderHistory
    /\ p_pc = "idle"
    /\ sets_started < MaxWrites
    /\ p_x' = c_current
    /\ p_value' = sets_started + 1
    /\ p_pc' = "store"
    /\ SetCallBegins(c_current)
    /\ q_quiet' = FALSE
    /\ UNCHANGED <<chan, consumeBuf, replaceBuf, consLocal, readHistory>>
    /\ UNCHANGED lazyVars
    /\ UNCHANGED arcVars

\* mutant: write spins while a read of the consumer is under way
consume_write_store_spinning ==
    /\ chan = "consume"
    /\ UNCHANGED getHistory
    /\ UNCHANGED orderHistory
    /\ p_pc = "store"
    /\ q_pc = "idle"
    /\ c_buffer' = [c_buffer EXCEPT ![p_x] = p_value]
    /\ p_pc' = "publish"
    /\ ProducerStep
    /\ UNCHANGED <<chan, c_is_empty, c_read, c_current, replaceBuf, p_x, p_value, q_raced,
                   sets_started, sets_done, published, p_undisturbed, writes_since_read,
                   q_window>>
    /\ UNCHANGED lazyVars
    /\ UNCHANGED arcVars

\* pointer.write(value) completes
consume_write_store ==
    /\ chan = "consume"
    /\ UNCHANGED getHistory
    /\ UNCHANGED orderHistory
    /\ p_pc = "store"
    /\ c_buffer' = [c_buffer EXCEPT ![p_x] = p_value]
    /\ p_pc' = "publish"
    /\ ProducerStep
    /\ UNCHANGED <<chan, c_is_empty, c_read, c_current, replaceBuf, p_x, p_value, q_raced,
                   sets_started, sets_done, published, p_undisturbed, writes_since_read,
                   q_window>>
    /\ UNCHANGED lazyVars
    /\ UNCHANGED arcVars

\* mutant: write raises the flag without having published the slot it stored
consume_write_publish_skipped ==
    /\ chan = "consume"
    /\ UNCHANGED getHistory
    /\ UNCHANGED orderHistory
    /\ p_pc = "publish"
    /\ p_pc' = "flag"
    /\ ProducerStep
    /\ UNCHANGED <<chan, consumeBuf, replaceBuf, p_x, p_value, q_raced,
                   sets_started, sets_done, published, p_undisturbed, writes_since_read,
                   q_window>>
    /\ UNCHANGED lazyVars
    /\ UNCHANGED arcVars

\* self.read.store(pointer, Ordering::Release)
consume_write_publish ==
    /\ chan = "consume"
    /\ UNCHANGED getHistory
    /\ UNCHANGED orderHistory
    /\ p_pc = "publish"
    /\ c_read' = p_x
    /\ published' = p_value
    /\ p_pc' = "flag"
    /\ ProducerStep
    /\ UNCHANGED <<chan, c_is_empty, c_current, c_buffer, replaceBuf, p_x, p_value, q_raced,
                   sets_started, sets_done, p_undisturbed, writes_since_read, q_window>>
    /\ UNCHANGED lazyVars
    /\ UNCHANGED arcVars

\* mutant: write does not store is_empty := false
consume_write_flag_skipped ==
    /\ chan = "consume"
    /\ UNCHANGED orderHistory
    /\ UNCHANGED getHistory
    /\ p_pc = "flag"
    /\ p_pc' = "advance"
    /\ ProducerStep
    /\ UNCHANGED <<chan, consumeBuf, replaceBuf, p_x, p_value, q_raced,
                   sets_started, sets_done, published, p_undisturbed, writes_since_read,
                   q_window>>
    /\ UNCHANGED lazyVars
    /\ UNCHANGED arcVars

\* self.is_empty.store(false, Ordering::Release)
consume_write_flag ==
    /\ chan = "consume"
    /\ set_flagged_since_clear' = (q_pc \in {"load", "deref"})
    /\ UNCHANGED set_ended_since_clear
    /\ UNCHANGED getHistory
    /\ p_pc = "flag"
    /\ c_is_empty' = FALSE
    /\ p_pc' = "advance"
    /\ ProducerStep
    /\ UNCHANGED <<chan, c_read, c_current, c_buffer, replaceBuf, p_x, p_value, q_raced,
                   sets_started, sets_done, published, p_undisturbed, writes_since_read,
                   q_window>>
    /\ UNCHANGED lazyVars
    /\ UNCHANGED arcVars

\* self.current.set((x + 1) & (BUFFER_SIZE - 1)); write and set return
consume_write_advance ==
    /\ chan = "consume"
    /\ set_ended_since_clear' = (q_pc \in {"load", "deref"})
    /\ UNCHANGED set_flagged_since_clear
    /\ UNCHANGED getHistory
    /\ p_pc = "advance"
    /\ c_current' = NextCursor(p_x)
    /\ p_pc' = "idle"
    /\ SetCallEnds
    /\ ProducerStep
    /\ UNCHANGED <<chan, c_is_empty, c_read, c_buffer, replaceBuf, p_x, p_value>>
    /\ UNCHANGED lazyVars
    /\ UNCHANGED arcVars

\* mutant: an empty buffer is read anyway instead of answering None
consume_read_flag_ignored ==
    /\ chan = "consume"
    /\ h_consumer
    /\ UNCHANGED getHistory
    /\ UNCHANGED orderHistory
    /\ q_pc = "idle"
    /\ q_ret' = q_ret
    /\ q_pc' = "clear"
    /\ ReadCallBegins
    /\ ConsumerStep
    /\ UNCHANGED <<chan, consumeBuf, replaceBuf, q_ptr, q_seen, q_raced, q_expect, q_window,
                   delivered_last>>
    /\ UNCHANGED lazyVars
    /\ UNCHANGED arcVars

\* Consumer::consume -> Buffer::read: if self.is_empty.load(Ordering::Acquire) { None }
consume_read_flag ==
    /\ chan = "consume"
    /\ h_consumer
    /\ UNCHANGED getHistory
    /\ UNCHANGED orderHistory
    /\ q_pc = "idle"
    /\ IF c_is_empty
         THEN q_ret' = None /\ q_pc' = "idle"
         ELSE q_ret' = q_ret /\ q_pc' = "clear"
    /\ ReadCallBegins
    /\ ConsumerStep
    /\ UNCHANGED <<chan, consumeBuf, replaceBuf, q_ptr, q_seen, q_raced, q_expect, q_window,
                   delivered_last>>
    /\ UNCHANGED lazyVars
    /\ UNCHANGED arcVars

\* mutant: read does not store is_empty := true
consume_read_clear_skipped ==
    /\ chan = "consume"
    /\ set_flagged_since_clear' = FALSE /\ set_ended_since_clear' = FALSE
    /\ UNCHANGED getHistory
    /\ q_pc = "clear"
    /\ q_pc' = "load"
    /\ ReadCallGoesOn
    /\ ConsumerStep
    /\ UNCHANGED <<chan, consumeBuf, replaceBuf, q_ptr, q_ret, q_seen, q_raced,
                   q_expect, q_window, delivered_last>>
    /\ UNCHANGED lazyVars
    /\ UNCHANGED arcVars

\* self.is_empty.store(true, Ordering::Release)
consume_read_clear ==
    /\ chan = "consume"
    /\ set_flagged_since_clear' = FALSE /\ set_ended_since_clear' = FALSE
    /\ UNCHANGED getHistory
    /\ q_pc = "clear"
    /\ c_is_empty' = TRUE
    /\ q_pc' = "load"
    /\ ReadCallGoesOn
    /\ ConsumerStep
    /\ UNCHANGED <<chan, c_read, c_current, c_buffer, replaceBuf, q_ptr, q_ret, q_seen, q_raced,
                   q_expect, q_window, delivered_last>>
    /\ UNCHANGED lazyVars
    /\ UNCHANGED arcVars

\* self.read.load(Ordering::Acquire)
consume_read_load ==
    /\ chan = "consume"
    /\ UNCHANGED getHistory
    /\ UNCHANGED orderHistory
    /\ q_pc = "load"
    /\ q_ptr' = c_read
    /\ q_seen' = IF c_read = Null THEN Uninit ELSE c_buffer[c_read]
    /\ q_raced' = FALSE
    /\ q_expect' = published
    /\ q_window' = 0
    /\ q_pc' = "deref"
    /\ ReadCallGoesOn
    /\ ConsumerStep
    /\ UNCHANGED <<chan, consumeBuf, replaceBuf, q_ret, delivered_last>>
    /\ UNCHANGED lazyVars
    /\ UNCHANGED arcVars

\* mutant: read stores is_empty := true only when it dereferences
consume_read_deref_clearing ==
    /\ chan = "consume"
    /\ q_pc = "deref"
    /\ \E v \in DerefOutcomes(c_buffer, q_ptr) :
          /\ q_ret' = v
          /\ delivered_last' = IF v >= 1 THEN v ELSE delivered_last
    /\ c_is_empty' = TRUE
    /\ q_pc' = "idle"
    /\ set_flagged_since_clear' = FALSE /\ set_ended_since_clear' = FALSE
    /\ ReadCallGoesOn
    /\ ConsumerStep
    /\ UNCHANGED <<chan, c_read, c_current, c_buffer, replaceBuf, q_ptr, q_seen, q_raced,
                   q_expect, q_window, getHistory>>
    /\ UNCHANGED lazyVars
    /\ UNCHANGED arcVars

\* Some(unsafe { *pointer }); read and consume return
consume_read_deref ==
    /\ chan = "consume"
    /\ set_flagged_since_clear' = FALSE /\ set_ended_since_clear' = FALSE
    /\ UNCHANGED getHistory
    /\ q_pc = "deref"
    /\ \E v \in DerefOutcomes(c_buffer, q_ptr) :
          /\ q_ret' = v
          /\ delivered_last' = IF v >= 1 THEN v ELSE delivered_last
    /\ q_pc' = "idle"
    /\ ReadCallGoesOn
    /\ ConsumerStep
    /\ UNCHANGED <<chan, consumeBuf, replaceBuf, q_ptr, q_seen, q_raced, q_expect, q_window>>
    /\ UNCHANGED lazyVars
    /\ UNCHANGED arcVars

----------------------------------------------------------------------------
\* replace_spsc.rs (the overwrite channel)

\* make(initial): Arc::new(Buffer::new()); (*arc).write(initial); the two handles.
\* No other thread holds the buffer yet, so the write is one step.
replace_make ==
    /\ chan = "none"
    /\ UNCHANGED getHistory
    /\ UNCHANGED orderHistory
    /\ chan' = "replace"
    /\ r_write' = [[i \in Slots |-> Uninit] EXCEPT ![0] = 0]
    /\ r_read' = 0
    /\ r_current' = NextCursor(0)
    /\ published' = 0
    /\ UNCHANGED <<consumeBuf, prodLocal, consLocal, q_raced, sets_started, sets_done,
                   p_undisturbed, writes_since_read, q_quiet, readHistory, q_window>>
    /\ UNCHANGED lazyVars
    /\ MakeHandles

\* mutant: write publishes the pointer before it stores through it
replace_write_begin_publishing ==
    /\ chan = "replace"
    /\ h_producer
    /\ UNCHANGED getHistory
    /\ UNCHANGED orderHistory
    /\ p_pc = "idle"
    /\ sets_started < MaxWrites
    /\ p_x' = r_current
    /\ p_value' = sets_started + 1
    /\ p_pc' = "store"
    /\ r_read' = r_current
    /\ SetCallBegins(r_current)
    /\ q_quiet' = FALSE
    /\ UNCHANGED <<chan, consumeBuf, r_current, r_write, consLocal, readHistory>>
    /\ UNCHANGED lazyVars
    /\ UNCHANGED arcVars

\* Producer::set -> Buffer::write: let x = self.current.get(); the pointer is
\* computed and *pointer = value begins
replace_write_begin ==
    /\ chan = "replace"
    /\ h_producer
    /\ UNCHANGED getHistory
    /\ UNCHANGED orderHistory
    /\ p_pc = "idle"
    /\ sets_started < MaxWrites
    /\ p_x' = r_current
    /\ p_value' = sets_started + 1
    /\ p_pc' = "store"
    /\ SetCallBegins(r_current)
    /\ q_quiet' = FALSE
    /\ UNCHANGED <<chan, consumeBuf, replaceBuf, consLocal, readHistory>>
    /\ UNCHANGED lazyVars
    /\ UNCHANGED arcVars

\* *pointer = value completes
replace_write_store ==
    /\ chan = "replace"
    /\ UNCHANGED getHistory
    /\ UNCHANGED orderHistory
    /\ p_pc = "store"
    /\ r_write' = [r_write EXCEPT ![p_x] = p_value]
    /\ p_pc' = "publish"
    /\ ProducerStep
    /\ UNCHANGED <<chan, consumeBuf, r_read, r_current, p_x, p_value, q_raced,
                   sets_started, sets_done, published, p_undisturbed, writes_since_read,
                   q_window>>
    /\ UNCHANGED lazyVars
    /\ UNCHANGED arcVars

\* mutant: write does not publish the slot it stored
replace_write_publish_skipped ==
    /\ chan = "replace"
    /\ UNCHANGED getHistory
    /\ UNCHANGED orderHistory
    /\ p_pc = "publish"
    /\ p_pc' = "advance"
    /\ ProducerStep
    /\ UNCHANGED <<chan, consumeBuf, replaceBuf, p_x, p_value, q_raced,
                   sets_started, sets_done, published, p_undisturbed, writes_since_read,
                   q_window>>
    /\ UNCHANGED lazyVars
    /\ UNCHANGED arcVars

\* self.read.store(pointer, Ordering::Release)
replace_write_publish ==
    /\ chan = "replace"
    /\ UNCHANGED getHistory
    /\ UNCHANGED orderHistory
    /\ p_pc = "publish"
    /\ r_read' = p_x
    /\ published' = p_value
    /\ p_pc' = "advance"
    /\ ProducerStep
    /\ UNCHANGED <<chan, consumeBuf, r_current, r_write, p_x, p_value, q_raced,
                   sets_started, sets_done, p_undisturbed, writes_since_read, q_window>>
    /\ UNCHANGED lazyVars
    /\ UNCHANGED arcVars

\* self.current.set((x + 1) & (BUFFER_SIZE - 1)); write and set return
replace_write_advance ==
    /\ chan = "replace"
    /\ UNCHANGED getHistory
    /\ UNCHANGED orderHistory
    /\ p_pc = "advance"
    /\ r_current' = NextCursor(p_x)
    /\ p_pc' = "idle"
    /\ SetCallEnds
    /\ ProducerStep
    /\ UNCHANGED <<chan, consumeBuf, r_read, r_write, p_x, p_value>>
    /\ UNCHANGED lazyVars
    /\ UNCHANGED arcVars

\* Consumer::get -> Buffer::read: self.read.load(Ordering::Acquire)
replace_read_load ==
    /\ chan = "replace"
    /\ h_consumer
    /\ UNCHANGED getHistory
    /\ UNCHANGED orderHistory
    /\ q_pc = "idle"
    /\ q_ptr' = r_read
    /\ q_seen' = IF r_read = Null THEN Uninit ELSE r_write[r_read]
    /\ q_raced' = FALSE
    /\ q_expect' = published
    /\ q_window' = 0
    /\ q_pc' = "deref"
    /\ ReadCallBegins
    /\ ConsumerStep
    /\ UNCHANGED <<chan, consumeBuf, replaceBuf, q_ret, delivered_last>>
    /\ UNCHANGED lazyVars
    /\ UNCHANGED arcVars

\* unsafe { *pointer }; read and get return
replace_read_deref ==
    /\ chan = "replace"
    /\ UNCHANGED orderHistory
    /\ q_pc = "deref"
    /\ \E v \in DerefOutcomes(r_write, q_ptr) :
          /\ q_ret' = v
          /\ q_max' = IF v > q_max THEN v ELSE q_max
    /\ q_widest' = IF q_window > q_widest THEN q_window ELSE q_widest
    /\ q_pc' = "idle"
    /\ ReadCallGoesOn
    /\ ConsumerStep
    /\ UNCHANGED <<chan, consumeBuf, replaceBuf, q_ptr, q_seen, q_raced, q_expect, q_window,
                   delivered_last>>
    /\ UNCHANGED lazyVars
    /\ UNCHANGED arcVars

----------------------------------------------------------------------------
Next ==
    \/ consume_make
    \/ consume_write_begin
    \/ consume_write_store
    \/ consume_write_publish
    \/ consume_write_flag
    \/ consume_write_advance
    \/ consume_read_flag
    \/ consume_read_clear
    \/ consume_read_load
    \/ consume_read_deref
    \/ replace_make
    \/ replace_write_begin
    \/ replace_write_store
    \/ replace_write_publish
    \/ replace_write_advance
    \/ replace_read_load
    \/ replace_read_deref

Spec == Init /\ [][Next]_vars

TypeOK ==
    /\ chan \in {"none", "consume", "replace"}
    /\ c_is_empty \in BOOLEAN
    /\ c_read \in Slots \cup {Null}
    /\ c_current \in Slots
    /\ r_read \in Slots \cup {Null}
    /\ r_current \in Slots
    /\ p_pc \in {"idle", "store", "publish", "flag", "advance"}
    /\ q_pc \in {"idle", "clear", "load", "deref"}

----------------------------------------------------------------------------
\* Claims

\* a consume call returns Some(v) in this step
ConsumeReturnsSome == chan = "consume" /\ q_pc = "deref" /\ q_pc' = "idle" /\ q_ret' >= 1

\* C1: drain channel, at most once: the value written by one set call is returned
\* as Some by at most one consume call; in particular no consume returns as Some
\* the value the previous Some-returning consume returned.
C1_DeliveredAtMostOnce == [][ConsumeReturnsSome => q_ret' # delivered_last]_vars

\* the consumer is between two read calls and its last call has returned
ReadReturned == q_pc = "idle" /\ q_ret # NoCall

\* C2: overwrite channel, sequential reads: a get during which the producer is
\* idle (however many sets v1..vN completed before it, N = 0 included) returns the
\* value of the last completed set, the initial value when there is none; so does
\* every further get before the next set.
C2_GetReturnsLastSet ==
    (chan = "replace" /\ ReadReturned /\ q_quiet) => q_ret = sets_done

\* C2 witness: make(0), five sets, a get returning 5 and a second get returning 5
C2_Witness ==
    /\ chan = "replace" /\ ReadReturned /\ q_quiet
    /\ q_after /\ q_batch = 0 /\ sets_done = 5 /\ q_ret = 5

\* C3: drain channel, sequential reads: after k >= 1 sets begun and completed
\* with no consumer step in between, a consume during which the producer is idle returns
\* Some of the last value set, and the consume right after it returns None.
C3_ConsumeLastThenNone ==
    (chan = "consume" /\ ReadReturned /\ q_quiet) =>
        /\ q_batch >= 1 => q_ret = sets_done
        /\ q_after => q_ret = None

\* C3 witness: set(1), set(2), consume = Some(2), consume = None
C3_Witness ==
    /\ chan = "consume" /\ ReadReturned /\ q_quiet
    /\ q_after /\ sets_done = 2 /\ delivered_last = 2 /\ q_ret = None

\* C4: drain channel: no consume returns a value before the first set begins,
\* and a consume whose load of is_empty sees true returns None in that step and
\* leaves is_empty, the published reference and the cursor as they are.
C4_EmptyConsumeReturnsNone ==
    /\ []((chan = "consume" /\ sets_started = 0) => q_ret \in {NoCall, None})
    /\ [][(consume_read_flag /\ c_is_empty) =>
            /\ q_ret' = None
            /\ q_pc' = "idle"
            /\ UNCHANGED <<c_is_empty, c_read, c_current, c_buffer>>]_vars

\* C4 witness: consume on the freshly made channel has returned None
C4_Witness ==
    chan = "consume" /\ sets_started = 0 /\ q_pc = "idle" /\ q_ret = None

\* C5: ring wraparound, both channels: the cursor is the number of writes modulo
\* BUFFER_SIZE, a set can always begin, and after more than BUFFER_SIZE completed
\* writes with no consumer step in between a read during which the producer is
\* idle returns the last value written.
C5_WraparoundReadsNewest ==
    /\ (chan = "consume" /\ p_pc = "idle") => c_current = sets_done % BUFFER_SIZE
    /\ (chan = "replace" /\ p_pc = "idle") => r_current = (sets_done + 1) % BUFFER_SIZE
    /\ (chan = "consume" /\ p_pc = "idle" /\ sets_started < MaxWrites)
            => ENABLED consume_write_begin
    /\ (chan = "replace" /\ p_pc = "idle" /\ sets_started < MaxWrites)
            => ENABLED replace_write_begin
    /\ (chan # "none" /\ ReadReturned /\ q_quiet /\ q_batch > BUFFER_SIZE)
            => q_ret = sets_done

\* C5 witness: 17 writes with no read, then a read returning the 17th value
C5_Witness ==
    /\ chan = "consume" /\ ReadReturned /\ q_quiet
    /\ q_batch = BUFFER_SIZE + 1 /\ q_ret = BUFFER_SIZE + 1

\* the same on the overwrite channel
C5_WitnessReplace ==
    /\ chan = "replace" /\ ReadReturned /\ q_quiet
    /\ q_batch = BUFFER_SIZE + 1 /\ q_ret = BUFFER_SIZE + 1

\* the order of the steps of Buffer::write and of Buffer::read
WriteRank(pc) ==
    CASE pc = "idle" -> 0 [] pc = "store" -> 1 [] pc = "publish" -> 2
      [] pc = "flag" -> 3 [] pc = "advance" -> 4

ReadRank(pc) ==
    CASE pc = "idle" -> 0 [] pc = "clear" -> 1 [] pc = "load" -> 2 [] pc = "deref" -> 3

\* the next step of the set call under way
SetGoesOn ==
    \/ consume_write_store \/ consume_write_publish \/ consume_write_flag
    \/ consume_write_advance
    \/ replace_write_store \/ replace_write_publish \/ replace_write_advance

\* the next step of the read call under way
ReadGoesOn ==
    \/ consume_read_clear \/ consume_read_load \/ consume_read_deref
    \/ replace_read_deref

C7_ReferenceAlwaysWritten ==
    /\ chan = "replace" =>
          r_read \in Slots /\ r_write[r_read] = published /\ ~StoreInFlight(r_read)
    /\ chan = "consume" =>
          c_read \in Slots /\ c_buffer[c_read] = published /\ ~StoreInFlight(c_read)

\* C7 amended: the reference of the drain channel is null from make until the
\* first set publishes; a reference that is not null (the overwrite channel's
\* always) refers to a slot that holds the completely stored value of the write
\* that published it, and not to the slot being stored into.
C7_ReferenceNullOrWritten ==
    /\ chan = "replace" =>
          r_read \in Slots /\ r_write[r_read] = published /\ ~StoreInFlight(r_read)
    /\ chan = "consume" =>
          \/ c_read = Null /\ published = 0
          \/ c_read \in Slots /\ published >= 1 /\ c_buffer[c_read] = published
                /\ ~StoreInFlight(c_read)

\* C7 witness: the ring has wrapped, a store is in flight and the reference
\* refers to the slot before it
C7_Witness ==
    /\ chan = "replace" /\ p_pc = "store" /\ sets_started > BUFFER_SIZE
    /\ r_read # p_x /\ r_write[r_read] = published

\* C8: the availability flag is true or false; it goes from empty to has-value
\* only in a step of set and from has-value to empty only in a step of consume.
C8_FlagOwnership ==
    /\ [](c_is_empty \in BOOLEAN)
    /\ [][(c_is_empty /\ ~c_is_empty') => (p_pc' # p_pc /\ q_pc' = q_pc)]_vars
    /\ [][(~c_is_empty /\ c_is_empty') => (q_pc' # q_pc /\ p_pc' = p_pc)]_vars

\* C8 witness: the flag was raised by a set and lowered again by a consume
C8_Witness ==
    chan = "consume" /\ c_is_empty /\ sets_done >= 1 /\ delivered_last >= 1

\* the last read call dereferenced a reference and returned what it found
DerefReturned == ReadReturned /\ q_ret # None

\* the set calls that had a step between the reference load and now: the one
\* under way at the load, if any, and those begun since
WritesOverlapping == sets_started - q_expect

\* C9 as claimed: overwrite channel: a get during which fewer than BUFFER_SIZE
\* set calls begin returns the value of the last publish before its reference
\* load, which is not older than the last set completed before the get began.
C9_GetLatestBelow16 ==
    (chan = "replace" /\ DerefReturned /\ q_window < BUFFER_SIZE) =>
        q_ret = q_expect /\ q_ret >= q_done_at_start

\* C9 amended: the same for a get during which fewer than BUFFER_SIZE - 1 set
\* calls begin (a set call under way at the load stores into the next slot, and
\* the store of the 15th call begun after the load reuses the loaded slot).
C9_GetLatestBelow15 ==
    (chan = "replace" /\ DerefReturned /\ q_window < BUFFER_SIZE - 1) =>
        q_ret = q_expect /\ q_ret >= q_done_at_start

\* C9 witness: 14 set calls began during a get, which returned the value published
\* before its load, a value newer than the last set completed before it began
C9_Witness ==
    /\ chan = "replace" /\ DerefReturned /\ q_window = BUFFER_SIZE - 2
    /\ q_ret = q_expect /\ q_expect = 2 /\ q_done_at_start = 2 /\ sets_started = 16

\* C10 as claimed: slot reuse, both channels: the producer stores into the slot
\* of a loaded, not yet dereferenced reference only if BUFFER_SIZE set calls had a
\* step since the load, and a read with at most BUFFER_SIZE - 1 set calls begun
\* between its load and its dereference returns the value of the write that
\* published the reference.
C10_SlotReuseAfter15Begun ==
    /\ (q_pc = "deref" /\ StoreInFlight(q_ptr)) => WritesOverlapping >= BUFFER_SIZE
    /\ (DerefReturned /\ q_window <= BUFFER_SIZE - 1) => q_ret = q_expect

\* C10 amended: the producer stores into that slot only if BUFFER_SIZE set calls
\* had a step since the load, BUFFER_SIZE - 1 of them at least begun since the
\* load; a read with at most BUFFER_SIZE - 2 set calls begun between its load and
\* its dereference returns the value of the write that published the reference.
C10_SlotReuseAfter14Begun ==
    /\ (q_pc = "deref" /\ StoreInFlight(q_ptr)) =>
            WritesOverlapping >= BUFFER_SIZE /\ q_window >= BUFFER_SIZE - 1
    /\ (DerefReturned /\ q_window <= BUFFER_SIZE - 2) => q_ret = q_expect

\* C10 witness: the 15th set call begun since the load of the drain channel's
\* reader stores into the slot the reader is about to dereference
C10_Witness ==
    /\ chan = "consume" /\ q_pc = "deref" /\ StoreInFlight(q_ptr)
    /\ q_window = BUFFER_SIZE - 1 /\ WritesOverlapping = BUFFER_SIZE

\* a reader holds a loaded, not yet dereferenced reference to the slot the
\* producer's plain store is in flight into
StoreIntoLoadedSlot == chan # "none" /\ q_pc = "deref" /\ StoreInFlight(q_ptr)

\* C11: the publish/dereference race is there: every store in flight into the
\* slot of a loaded, not yet dereferenced reference is the store of a write that
\* comes a positive multiple of BUFFER_SIZE writes after the write that published
\* the reference (the 17th write, counting that one as the 1st, is the first),
\* and C11_Witness shows that such a store is reached.
C11_RaceIsThe17thWrite ==
    StoreIntoLoadedSlot =>
        /\ p_value - q_expect >= BUFFER_SIZE
        /\ (p_value - q_expect) % BUFFER_SIZE = 0

\* C11 witness: the reference published by write 1 is loaded and not yet
\* dereferenced while write 17 stores into its slot
C11_Witness ==
    /\ StoreIntoLoadedSlot /\ chan = "consume"
    /\ q_expect = 1 /\ p_value = BUFFER_SIZE + 1 /\ q_ptr = 0

\* a consumer read is between its first atomic load and its dereference
ReadUnderWay ==
    \/ chan = "consume" /\ q_pc \in {"clear", "load", "deref"}
    \/ chan = "replace" /\ q_pc = "deref"

\* C12 (doc of Producer::set): while a consumer read is between its first atomic
\* load and its dereference, no step stores into the ring or publishes a
\* reference: the set spins until the read is finished.
C12_SetWaitsForRead ==
    [][ReadUnderWay =>
          /\ c_buffer' = c_buffer /\ c_read' = c_read
          /\ r_write' = r_write /\ r_read' = r_read]_vars

\* C18: drain channel: whenever the flag says has-value the published reference
\* is not null and refers to a slot a write has completed into; the reference a
\* consume dereferences is never null and never that of a never-written slot,
\* and no consume returns from a null dereference.
C18_FlagImpliesPublished ==
    chan = "consume" =>
        /\ ~c_is_empty => (c_read \in Slots /\ c_buffer[c_read] # Uninit /\ published >= 1)
        /\ q_pc = "deref" => (q_ptr \in Slots /\ c_buffer[q_ptr] # Uninit)
        /\ q_ret # Fault

\* C18 witness: the first set has raised the flag and a consume is about to
\* dereference the slot it published
C18_Witness ==
    /\ chan = "consume" /\ sets_started = 1 /\ q_pc = "deref"
    /\ q_ptr = 0 /\ c_buffer[q_ptr] = 1

\* a consume call returns from its dereference in this step
ConsumeReturns == chan = "consume" /\ q_pc = "deref" /\ q_pc' = "idle"

\* the order of the steps of a consume call that returns Some: (1) it loads
\* is_empty and finds it false, (2) it stores is_empty := true, (3) it loads the
\* published reference, (4) it dereferences it and returns; only step 2 changes
\* the buffer and only step 4 returns a value
ConsumeStepOrder ==
    [][chan = "consume" =>
          /\ (q_pc = "idle" /\ q_pc' # "idle") =>
                (q_pc' = "clear" /\ ~c_is_empty /\ UNCHANGED consumeBuf)
          /\ (q_pc = "clear" /\ q_pc' # "clear") =>
                (q_pc' = "load" /\ c_is_empty' /\ UNCHANGED <<c_read, c_current, c_buffer>>)
          /\ (q_pc = "load" /\ q_pc' # "load") =>
                (q_pc' = "deref" /\ q_ptr' = c_read /\ UNCHANGED consumeBuf)
          /\ (q_pc = "deref" /\ q_pc' # "deref") =>
                (q_pc' = "idle" /\ q_ret' # None /\ UNCHANGED consumeBuf)
          /\ (q_ret' # q_ret /\ q_ret' # None) => q_pc = "deref"]_vars

\* C17 as claimed: the steps of a consume that returns Some are in that order,
\* and a set call that completes after step 2 leaves the flag at has-value when
\* the consume returns.
C17_SetEndedAfterClear ==
    /\ ConsumeStepOrder
    /\ [][(ConsumeReturns /\ set_ended_since_clear) => ~c_is_empty']_vars

\* C17 amended: the steps are in that order, and a set call whose store of
\* is_empty := false comes after step 2 leaves the flag at has-value when the
\* consume returns.
C17_SetFlaggedAfterClear ==
    /\ ConsumeStepOrder
    /\ [][(ConsumeReturns /\ set_flagged_since_clear) => ~c_is_empty']_vars

\* C17 witness: a set has raised the flag and returned after step 2 of the
\* consume that is about to dereference and return
C17_Witness ==
    /\ chan = "consume" /\ q_pc = "deref" /\ p_pc = "idle"
    /\ set_flagged_since_clear /\ set_ended_since_clear /\ ~c_is_empty

\* a get call returns in this step
GetReturns == chan = "replace" /\ q_pc = "deref" /\ q_pc' = "idle"

\* C20 as claimed: overwrite channel, monotonic reads: as long as fewer than
\* BUFFER_SIZE set calls begin during every single get, no get returns a value
\* older than one an earlier get returned.
C20_MonotonicBelow16 ==
    [][(GetReturns /\ q_widest < BUFFER_SIZE /\ q_window < BUFFER_SIZE)
          => q_ret' >= q_max]_vars

\* C20 amended: the same as long as fewer than BUFFER_SIZE - 1 set calls begin
\* during every single get.
C20_MonotonicBelow15 ==
    [][(GetReturns /\ q_widest < BUFFER_SIZE - 1 /\ q_window < BUFFER_SIZE - 1)
          => q_ret' >= q_max]_vars

\* C20 witness: 14 set calls began during one get, and the last get returned
\* the newest value any get has returned, that of write 15 or later
C20_Witness ==
    /\ chan = "replace" /\ ReadReturned /\ q_widest = BUFFER_SIZE - 2
    /\ q_ret = q_max /\ q_ret >= BUFFER_SIZE - 1

\* the steps of the consumer thread of the drain channel
ConsumerNext ==
    \/ consume_read_flag \/ consume_read_clear \/ consume_read_load \/ consume_read_deref

\* the consumer keeps calling consume: its next step is taken whenever it stays
\* possible; nothing is asked of the producer, which may stop after any set
SpecLive == Init /\ [][Next]_vars /\ WF_vars(ConsumerNext)

\* the last completed set is the last set begun and its value is undelivered
NewestUndelivered ==
    chan = "consume" /\ p_pc = "idle" /\ sets_done >= 1 /\ delivered_last # sets_done

LazyRead(c, store, boxes) ==
    IF c = "stack" THEN Resolve(store)
    ELSE IF store = Null THEN Fault ELSE boxes[store]

\* deref while init()'s plain store to the same field is under way is a data
\* race: the old content, the new content or a torn read
LazyDerefOutcomes(c) ==
    IF l_pc[c] = "store"
    THEN {LazyRead(c, l_store[c], l_boxes), l_value[c], Garbage}
    ELSE {LazyRead(c, l_store[c], l_boxes)}

\* init(): `let value = (self.initializer)();`
LazyInitCall(c) ==
    /\ chan = "none"
    /\ l_pc[c] = "idle"
    /\ l_inits[c] < MaxInits
    /\ l_calls' = [l_calls EXCEPT ![c] = @ + 1]
    /\ l_value' = [l_value EXCEPT ![c] = Factory(l_factory, l_calls[c] + 1)]
    /\ l_inits' = [l_inits EXCEPT ![c] = @ + 1]
    /\ l_pc' = [l_pc EXCEPT ![c] = "store"]
    /\ l_broken' = [l_broken EXCEPT ![c] = @ \/ l_inits[c] >= 1]
    /\ UNCHANGED <<l_factory, l_store, l_boxes, l_inits_done, l_ret, l_ret_after>>
    /\ UNCHANGED channelVars

\* the rest of an init() step that every flavor shares
LazyInitReturns(c) ==
    /\ chan = "none"
    /\ l_pc[c] = "store"
    /\ l_pc' = [l_pc EXCEPT ![c] = "idle"]
    /\ l_inits_done' = [l_inits_done EXCEPT ![c] = @ + 1]
    /\ UNCHANGED <<l_factory, l_value, l_calls, l_inits, l_ret, l_ret_after, l_broken>>
    /\ UNCHANGED channelVars

\* StaticStack::init, mutant: the value is computed and dropped
StaticStack_init_store_dropped ==
    /\ LazyInitReturns("stack")
    /\ UNCHANGED <<l_store, l_boxes>>

\* StaticStack::init, mutant: only the first init() stores
StaticStack_init_store_once ==
    /\ LazyInitReturns("stack")
    /\ l_store' = [l_store EXCEPT !["stack"] =
                      IF @ = StaticStack_new THEN l_value["stack"] ELSE @]
    /\ UNCHANGED l_boxes

\* StaticStack::init: `let value = (self.initializer)();`
StaticStack_init_call == LazyInitCall("stack")

\* StaticStack::init: `*pointer = StackStore { value };`
StaticStack_init_store ==
    /\ LazyInitReturns("stack")
    /\ l_store' = [l_store EXCEPT !["stack"] = l_value["stack"]]
    /\ UNCHANGED l_boxes

\* StaticHeap::init: `let value = (self.initializer)();`
StaticHeap_init_call == LazyInitCall("heap")

\* StaticHeap::init: `*pointer = Box::into_raw(Box::new(value));`
\* the box of an earlier init() stays allocated
StaticHeap_init_store ==
    /\ LazyInitReturns("heap")
    /\ l_boxes' = Append(l_boxes, l_value["heap"])
    /\ l_store' = [l_store EXCEPT !["heap"] = Len(l_boxes) + 1]

\* the part of a deref step that every flavor shares
LazyDeref(c, t, v) ==
    /\ chan = "none"
    /\ l_ret' = [l_ret EXCEPT ![c][t] = v]
    /\ l_ret_after' = [l_ret_after EXCEPT ![c][t] =
                          IF l_pc[c] = "idle" THEN l_inits_done[c] ELSE 0]
    /\ l_broken' = [l_broken EXCEPT ![c] = @ \/ l_inits_done[c] = 0 \/ l_pc[c] # "idle"]
    /\ UNCHANGED <<l_factory, l_store, l_boxes, l_pc, l_value, l_inits, l_inits_done>>
    /\ UNCHANGED channelVars

\* Deref for StaticHeap, mutant: an unset global is initialised on first use
StaticHeap_deref_initialising(t) ==
    /\ \E v \in LazyDerefOutcomes("heap") : LazyDeref("heap", t, v)
    /\ l_calls' = [l_calls EXCEPT !["heap"] =
                      IF l_store["heap"] = StaticHeap_new THEN @ + 1 ELSE @]

\* Deref for StaticStack: `&(*self.store.get()).value`
StaticStack_deref(t) ==
    /\ \E v \in LazyDerefOutcomes("stack") : LazyDeref("stack", t, v)
    /\ UNCHANGED l_calls

\* Deref for StaticHeap: `&**self.store.get()`
StaticHeap_deref(t) ==
    /\ \E v \in LazyDerefOutcomes("heap") : LazyDeref("heap", t, v)
    /\ UNCHANGED l_calls

NextLazy ==
    \/ StaticStack_init_call
    \/ StaticStack_init_store
    \/ \E t \in Readers : StaticStack_deref(t)
    \/ StaticHeap_init_call
    \/ StaticHeap_init_store
    \/ \E t \in Readers : StaticHeap_deref(t)

\* the lazy globals, created with either kind of initializer
InitLazy ==
    /\ InitChannels
    /\ \E f \in {"const", "fresh"} : LazyNew(f)

SpecLazy == InitLazy /\ [][NextLazy]_vars

LazyTypeOK ==
    /\ l_factory \in {"const", "fresh"}
    /\ \A c \in Cells :
        /\ l_pc[c] \in {"idle", "store"}
        /\ l_calls[c] \in 0..MaxInits
        /\ l_inits[c] \in 0..MaxInits
        /\ l_inits_done[c] \in 0..MaxInits
        /\ l_broken[c] \in BOOLEAN
        /\ \A t \in Readers : l_ret_after[c][t] \in 0..MaxInits
    /\ Len(l_boxes) <= MaxInits


\* C13: for either flavor the initializer has been invoked exactly as often as
\* init() has been called, whatever new, init and deref calls were made; a
\* global on which init() was never called still holds the placeholder of new
\* and nothing has been allocated for it.
C13_FactoryOncePerInit ==
    /\ \A c \in Cells : l_calls[c] = l_inits[c]
    /\ l_inits["stack"] = 0 => l_store["stack"] = Uninit
    /\ l_inits["heap"] = 0 => (l_store["heap"] = Null /\ l_boxes = <<>>)

\* both flavors initialised, one of them twice, and both dereferenced
C13_Witness ==
    /\ l_inits["stack"] = 2
    /\ l_inits["heap"] = 1
    /\ l_ret["stack"][2] # NoCall
    /\ l_ret["heap"][1] # NoCall

\* C14: while the usage contract holds (one init(), returned before the first
\* deref) every deref of every thread has yielded the value the initializer
\* produced, and once init() has returned no step that keeps the contract
\* (the derefs) changes the store or what is read through it.
C14_DerefYieldsFactoryValue ==
    /\ [](\A c \in Cells : \A t \in Readers :
            (~l_broken[c] /\ l_ret[c][t] # NoCall) => l_ret[c][t] = Factory(l_factory, 1))
    /\ [][\A c \in Cells :
            (l_inits_done[c] >= 1 /\ ~l_broken'[c]) =>
                /\ l_store'[c] = l_store[c]
                /\ LazyRead(c, l_store'[c], l_boxes') = LazyRead(c, l_store[c], l_boxes)]_vars

\* both flavors used by contract and dereferenced by both threads
C14_Witness ==
    \A c \in Cells :
        /\ ~l_broken[c]
        /\ \A t \in Readers : l_ret[c][t] # NoCall

\* C15: a deref of the stack flavor and a deref of the heap flavor that each
\* ran after the same number (at least one) of returned init() calls, with
\* none under way, yielded the same value.
C15_FlavorsAgree ==
    \A t \in Readers : \A u \in Readers :
        (l_ret_after["stack"][t] >= 1 /\ l_ret_after["stack"][t] = l_ret_after["heap"][u])
            => l_ret["stack"][t] = l_ret["heap"][u]

\* both flavors dereferenced after a second init() with an initializer whose
\* value differs per invocation
C15_Witness ==
    /\ l_factory = "fresh"
    /\ l_ret_after["stack"][1] = 2
    /\ l_ret_after["heap"][1] = 2
    /\ l_ret["stack"][1] = Factory("fresh", 2)


\* ---------------------------------------------------------------------------
\* Ownership of the ring (make, Producer, Consumer; both channels)

\* the drop of one Arc<Buffer<T>>: the count goes down by one and the holder
\* of the last reference frees the ring
ArcRelease ==
    /\ arc_strong' = ArcDrop(arc_strong)
    /\ ring_alive' = (ring_alive /\ arc_strong # 1)

\* the Producer is dropped; its thread is not inside set, which borrows it
Producer_drop ==
    /\ chan # "none"
    /\ h_producer
    /\ p_pc = "idle"
    /\ h_producer' = FALSE
    /\ ArcRelease
    /\ UNCHANGED <<chan, consumeBuf, replaceBuf, prodLocal, consLocal, q_raced, sets_started,
                   sets_done, published, p_undisturbed, writes_since_read, q_quiet,
                   readHistory, q_window, orderHistory, getHistory, h_consumer>>
    /\ UNCHANGED lazyVars

\* the Consumer is dropped; its thread is not inside consume / get
Consumer_drop ==
    /\ chan # "none"
    /\ h_consumer
    /\ q_pc = "idle"
    /\ h_consumer' = FALSE
    /\ ArcRelease
    /\ UNCHANGED <<chan, consumeBuf, replaceBuf, prodLocal, consLocal, q_raced, sets_started,
                   sets_done, published, p_undisturbed, writes_since_read, q_quiet,
                   readHistory, q_window, orderHistory, getHistory, h_producer>>
    /\ UNCHANGED lazyVars

NextDrop ==
    \/ Next
    \/ Producer_drop
    \/ Consumer_drop

\* the channels with handles that may be dropped at any time between calls
SpecDrop == Init /\ [][NextDrop]_vars

\* the handles that exist
LiveHandles == (IF h_producer THEN 1 ELSE 0) + (IF h_consumer THEN 1 ELSE 0)

\* a step that reads or writes the ring
RingAccess ==
    \/ consumeBuf' # consumeBuf
    \/ replaceBuf' # replaceBuf
    \/ q_pc' # q_pc

\* a set may be started / a consume or get may be started
SetCanBegin == ENABLED (consume_write_begin \/ replace_write_begin)
ReadCanBegin == ENABLED (consume_read_flag \/ replace_read_load)

\* C16: make hands out a Producer and a Consumer on one ring whose strong count
\* is 2; the count always equals the number of handles not yet dropped; the
\* ring is allocated exactly while a handle exists, so it is freed by the drop
\* of the second handle, whichever that is, and not before; a handle that is
\* left can still start its operation, and no step touches a freed ring.
C16_HandlePairOwnership ==
    /\ [](chan # "none" =>
            /\ arc_strong = LiveHandles
            /\ ring_alive <=> (h_producer \/ h_consumer)
            /\ (h_producer /\ p_pc = "idle" /\ sets_started < MaxWrites) => SetCanBegin
            /\ (h_consumer /\ q_pc = "idle") => ReadCanBegin)
    /\ [][(chan = "none" /\ chan' # "none") =>
            (arc_strong' = 2 /\ h_producer' /\ h_consumer' /\ ring_alive')]_vars
    /\ [][(chan # "none" /\ RingAccess) => (ring_alive /\ ring_alive')]_vars

\* the ring has been freed after the consumer went first and the producer
\* completed sets on its own, or the other way round
C16_Witness ==
    /\ chan = "replace"
    /\ ~ring_alive
    /\ arc_strong = 0
    /\ sets_done = 2
    /\ q_ret = 1

====
